---------------------------- MODULE Spec2Model ----------------------------
(***************************************************************************)
(* A model of the reversible stack-based interpreter of                    *)
(* src/src/interpreter.rs: the pending-instruction queue, the value stack  *)
(* and the undo history, with forward(), run(), back() and                 *)
(* add_instructions() as the code computes them on signed 32-bit values,   *)
(* and the script and shell sessions of src/src/cli.rs that drive it.      *)
(***************************************************************************)
EXTENDS Integers, Sequences, FiniteSets, TLC

VARIABLES
    instructions,   \* Interpreter.instructions: VecDeque<Instruction>, front first
    stack,          \* Interpreter.stack: Vec<i32>, top last
    history,        \* Interpreter.history: Vec<HistoryEntry>, most recent last
    last,           \* the last call made on the interpreter and what it returned
    scenario,       \* position and bookkeeping of the drain scenario
    counts,         \* what has been added, executed, refused and undone so far
    cli             \* the front end: its mode, whether it runs, its exit status

vars == <<instructions, stack, history, last, scenario, counts, cli>>

---------------------------------------------------------------------------
(* Bounds of the model.                                                    *)

\* Most instructions the interpreter holds at once (history plus queue).
MaxInstr == 4
\* Longest slice passed to one add_instructions call.
MaxBatch == 2
\* Longest instruction sequence loaded in the drain scenario.
MaxLen == 4
\* Most instructions passed to add_instructions in a counted session, and
\* most back() calls that succeed in it.
MaxAdded == 3
MaxUndone == 2
\* Most instructions the interpreter of a front-end session holds at once.
MaxHeld == 2
\* Most instructions the interpreter holds at once (history plus queue)
\* where run() is followed one loop iteration at a time.
MaxLooped == 3

---------------------------------------------------------------------------
(* i32 and the values pushed.                                              *)

I32_MAX == 2147483647
I32_MIN == -I32_MAX - 1

\* The operands Push instructions carry in the model: zero, minus one and
\* the two ends of the i32 range.
PushVals == {0, -1, I32_MAX, I32_MIN}

\* Option<T>
None == <<>>
Some(x) == <<x>>

\* Result<T, RuntimeError>
Ok(v) == <<"Ok", v>>
Err(e) == <<"Err", e>>
Unit == <<>>
is_ok(result) == result[1] = "Ok"
is_err(result) == result[1] = "Err"

\* A call that does not return: the thread panics.
Panic(message) == <<"Panic", message>>
is_panic(result) == result[1] = "Panic"

\* RuntimeError
DivideByZero == "DivideByZero"
StackUnderflow == "StackUnderflow"
NoInstructions == "NoInstructions"
ArithmeticOverflow == "ArithmeticOverflow"
InvalidCommand == "InvalidCommand"
RuntimeError ==
    {DivideByZero, StackUnderflow, NoInstructions, ArithmeticOverflow, InvalidCommand}

\* Instruction
Push(value) == <<"Push", value>>
Pop == <<"Pop">>
Add == <<"Add">>
Sub == <<"Sub">>
Mul == <<"Mul">>
Div == <<"Div">>
Instruction == {Push(v) : v \in PushVals} \cup {Pop, Add, Sub, Mul, Div}

HistoryEntry(instruction, popped_values, pushed_values) ==
    [instruction |-> instruction,
     popped_values |-> popped_values,
     pushed_values |-> pushed_values]

\* The interpreter as a value, and a call's outcome: the interpreter it
\* leaves and what it returns.
Interpreter(i, s, h) == [instructions |-> i, stack |-> s, history |-> h]
new == Interpreter(<<>>, <<>>, <<>>)
Ret(self, result) == [self |-> self, result |-> result]

---------------------------------------------------------------------------
(* i32 arithmetic.  Every intermediate value stays inside the i32 range.   *)

\* i32 `/`: the quotient rounded toward zero (b # 0, and not MIN / -1).
i32_div(a, b) ==
    IF b > 0
    THEN LET q == a \div b IN IF a < 0 /\ a % b # 0 THEN q + 1 ELSE q
    ELSE IF b = I32_MIN THEN (IF a = I32_MIN THEN 1 ELSE 0)
    ELSE LET q == a \div (-b)
             t == IF a < 0 /\ a % (-b) # 0 THEN q + 1 ELSE q
         IN -t

\* Addition wrapping around instead of failing.
wrapping_add(a, b) ==
    IF b > 0 /\ a > I32_MAX - b THEN Some((a + I32_MIN) + (b + I32_MIN))
    ELSE IF b < 0 /\ a < I32_MIN - b THEN Some((a - I32_MIN) + (b - I32_MIN))
    ELSE Some(a + b)

checked_add(a, b) ==
    IF (b > 0 /\ a > I32_MAX - b) \/ (b < 0 /\ a < I32_MIN - b)
    THEN None
    ELSE Some(a + b)

\* Subtraction wrapping around instead of failing.
wrapping_sub(a, b) ==
    IF b < 0 /\ a > I32_MAX + b THEN Some((a + I32_MIN) - (b - I32_MIN))
    ELSE IF b > 0 /\ a < I32_MIN + b THEN Some((a - I32_MIN) - (b + I32_MIN))
    ELSE Some(a - b)

checked_sub(a, b) ==
    IF (b < 0 /\ a > I32_MAX + b) \/ (b > 0 /\ a < I32_MIN + b)
    THEN None
    ELSE Some(a - b)

checked_mul(a, b) ==
    IF a = 0 \/ b = 0 THEN Some(0)
    ELSE IF b = -1 THEN (IF a = I32_MIN THEN None ELSE Some(-a))
    ELSE IF b > 0
    THEN (IF i32_div(I32_MIN, b) <= a /\ a <= i32_div(I32_MAX, b)
          THEN Some(a * b) ELSE None)
    ELSE (IF i32_div(I32_MAX, b) <= a /\ a <= i32_div(I32_MIN, b)
          THEN Some(a * b) ELSE None)

\* Division rounding down instead of toward zero.
checked_div_floor(a, b) ==
    IF b = 0 \/ (a = I32_MIN /\ b = -1) THEN None ELSE Some(a \div b)

checked_div(a, b) ==
    IF b = 0 \/ (a = I32_MIN /\ b = -1) THEN None ELSE Some(i32_div(a, b))

---------------------------------------------------------------------------
(* The engine.                                                             *)

\* The loop of add_instructions starting at the second item.
add_instructions_skip_first(self, items) ==
    [self EXCEPT !.instructions = @ \o (IF items = <<>> THEN <<>> ELSE Tail(items))]

\* Every item pushed at the front of the queue instead of the back.
add_instructions_front(self, items) ==
    [self EXCEPT !.instructions = [i \in 1..Len(items) |-> items[Len(items) + 1 - i]] \o @]

add_instructions(self, items) ==
    [self EXCEPT !.instructions = @ \o items]

\* current_instruction() taking the front instruction off the queue.
current_instruction_pop_front(self) ==
    IF self.instructions = <<>>
    THEN Ret(self, None)
    ELSE Ret([self EXCEPT !.instructions = Tail(@)], Some(self.instructions[1]))

current_instruction(self) ==
    Ret(self, IF self.instructions = <<>> THEN None ELSE Some(self.instructions[1]))

\* A pop that takes the oldest value instead of the newest.
vec_pop_front(v) ==
    IF v = <<>>
    THEN [vec |-> v, value |-> None]
    ELSE [vec |-> Tail(v), value |-> Some(Head(v))]

\* Vec::pop
vec_pop(v) ==
    IF v = <<>>
    THEN [vec |-> v, value |-> None]
    ELSE [vec |-> SubSeq(v, 1, Len(v) - 1), value |-> Some(v[Len(v)])]

forward_push(self, instruction) ==
    LET value == instruction[2]
    IN Ret([self EXCEPT !.stack = Append(@, value),
                        !.history = Append(@, HistoryEntry(instruction, <<>>, <<value>>))],
           Ok(instruction))

\* The record of a Pop with its two value lists exchanged.
pop_entry_swapped(instruction, value) ==
    HistoryEntry(instruction, <<>>, <<value>>)

pop_entry(instruction, value) ==
    HistoryEntry(instruction, <<value>>, <<>>)

\* The Pop arm leaving no record of what it did.
forward_pop_unrecorded(self, instruction) ==
    LET p == vec_pop(self.stack)
    IN IF p.value = None
       THEN Ret(self, Err(StackUnderflow))
       ELSE Ret([self EXCEPT !.stack = p.vec], Ok(instruction))

forward_pop(self, instruction) ==
    LET p == vec_pop(self.stack)
    IN IF p.value = None
       THEN Ret(self, Err(StackUnderflow))
       ELSE Ret([self EXCEPT !.stack = p.vec,
                             !.history = Append(@, pop_entry(instruction, p.value[1]))],
                Ok(instruction))

\* The record of a binary instruction with its operands in stack order.
arith_entry_in_stack_order(instruction, a, b, res) ==
    HistoryEntry(instruction, <<a, b>>, <<res>>)

arith_entry(instruction, a, b, res) ==
    HistoryEntry(instruction, <<b, a>>, <<res>>)

\* The operand check asking for one value only.
underflow_one(s) == Len(s) < 1

underflow(s) == Len(s) < 2

\* A failure path that leaves the operands popped.
restore_none(s, a, b) == s

div_by_zero_restore(s, a, b) == Append(Append(s, a), b)

overflow_restore(s, a, b) == Append(Append(s, a), b)

forward_arith(self, instruction) ==
    IF underflow(self.stack)
    THEN Ret(self, Err(StackUnderflow))
    ELSE
    LET pb == vec_pop(self.stack)
        pa == vec_pop(pb.vec)
    IN IF pb.value = None
       THEN Ret(self, Err(StackUnderflow))
       ELSE IF pa.value = None
       THEN Ret([self EXCEPT !.stack = pb.vec], Err(StackUnderflow))
       ELSE
       LET b == pb.value[1]
           a == pa.value[1]
       IN IF instruction = Div /\ b = 0
          THEN Ret([self EXCEPT !.stack = div_by_zero_restore(pa.vec, a, b)],
                   Err(DivideByZero))
          ELSE
          IF instruction \notin {Add, Sub, Mul, Div}
          THEN Ret([self EXCEPT !.stack = pa.vec], Panic("unreachable"))
          ELSE
          LET result == CASE instruction = Add -> checked_add(a, b)
                          [] instruction = Sub -> checked_sub(a, b)
                          [] instruction = Mul -> checked_mul(a, b)
                          [] instruction = Div -> checked_div(a, b)
          IN IF result # None
             THEN LET res == result[1]
                  IN Ret([self EXCEPT
                            !.stack = Append(pa.vec, res),
                            !.history = Append(@, arith_entry(instruction, a, b, res))],
                         Ok(instruction))
             ELSE Ret([self EXCEPT !.stack = overflow_restore(pa.vec, a, b)],
                      Err(ArithmeticOverflow))

\* The match of forward() with Pop in the arm of the binary instructions.
execute_pop_as_arith(self, instruction) ==
    CASE instruction[1] = "Push" -> forward_push(self, instruction)
      [] OTHER -> forward_arith(self, instruction)

\* The match of forward() on the instruction taken off the queue.
execute(self, instruction) ==
    CASE instruction[1] = "Push" -> forward_push(self, instruction)
      [] instruction = Pop -> forward_pop(self, instruction)
      [] OTHER -> forward_arith(self, instruction)

\* forward() putting an instruction that failed back at the front.
forward_requeue(self) ==
    IF self.instructions = <<>>
    THEN Ret(self, Err(NoInstructions))
    ELSE LET r == execute([self EXCEPT !.instructions = Tail(@)], Head(self.instructions))
         IN IF is_err(r.result) THEN Ret(self, r.result) ELSE r

\* forward() executing the front instruction without taking it off the queue.
forward_keep_front(self) ==
    IF self.instructions = <<>>
    THEN Ret(self, Err(NoInstructions))
    ELSE execute(self, Head(self.instructions))

\* forward() reporting the empty queue as an invalid command.
forward_empty_invalid(self) ==
    IF self.instructions = <<>>
    THEN Ret(self, Err(InvalidCommand))
    ELSE execute([self EXCEPT !.instructions = Tail(@)], Head(self.instructions))

\* forward() reporting the empty queue with the wrong error.
forward_empty_underflow(self) ==
    IF self.instructions = <<>>
    THEN Ret(self, Err(StackUnderflow))
    ELSE execute([self EXCEPT !.instructions = Tail(@)], Head(self.instructions))

forward(self) ==
    IF self.instructions = <<>>
    THEN Ret(self, Err(NoInstructions))
    ELSE execute([self EXCEPT !.instructions = Tail(@)], Head(self.instructions))

\* run() going on to the next instruction after one has failed.
RECURSIVE run_past_errors(_)
run_past_errors(self) ==
    IF self.instructions = <<>>
    THEN Ret(self, Ok(Unit))
    ELSE LET r == forward(self)
             rest == run_past_errors(r.self)
         IN IF is_ok(r.result) THEN rest ELSE Ret(rest.self, r.result)

\* run() whose loop stops with one instruction still queued.
RECURSIVE run_leaves_last(_)
run_leaves_last(self) ==
    IF Len(self.instructions) <= 1
    THEN Ret(self, Ok(Unit))
    ELSE LET r == forward(self)
         IN IF is_ok(r.result) THEN run_leaves_last(r.self) ELSE r

RECURSIVE run(_)
run(self) ==
    IF self.instructions = <<>>
    THEN Ret(self, Ok(Unit))
    ELSE LET r == forward(self)
         IN IF is_ok(r.result) THEN run(r.self) ELSE r

\* The undone instruction put at the back of the queue.
push_back(q, instruction) == Append(q, instruction)

push_front(q, instruction) == <<instruction>> \o q

\* back() leaving on the stack what the undone instruction pushed.
remove_pushed_skipped(s, n) == [vec |-> s, ok |-> TRUE]

\* The loop of back() over pushed_values: one pop each, stopping at the
\* first that finds the stack empty.
RECURSIVE remove_pushed(_, _)
remove_pushed(s, n) ==
    IF n = 0 THEN [vec |-> s, ok |-> TRUE]
    ELSE LET p == vec_pop(s)
         IN IF p.value = None THEN [vec |-> s, ok |-> FALSE]
            ELSE remove_pushed(p.vec, n - 1)

\* The popped values pushed back without .rev().
restore_popped_unreversed(s, popped_values) == s \o popped_values

\* The loop of back() over popped_values.iter().rev().
RECURSIVE restore_popped(_, _)
restore_popped(s, popped_values) ==
    IF popped_values = <<>> THEN s
    ELSE restore_popped(Append(s, popped_values[Len(popped_values)]),
                        SubSeq(popped_values, 1, Len(popped_values) - 1))

\* back() reading the last record without taking it off the history.
undo_keep_record(self) ==
    LET history_entry == self.history[Len(self.history)]
        s1 == [self EXCEPT
                 !.instructions = push_front(@, history_entry.instruction)]
        p == remove_pushed(s1.stack, Len(history_entry.pushed_values))
    IN IF ~p.ok
       THEN Ret([s1 EXCEPT !.stack = p.vec], Err(StackUnderflow))
       ELSE Ret([s1 EXCEPT !.stack = restore_popped(p.vec, history_entry.popped_values)],
                Ok(Unit))

\* back() once the history is known to hold a record.
undo(self) ==
    LET history_entry == self.history[Len(self.history)]
        s1 == [self EXCEPT
                 !.history = SubSeq(@, 1, Len(@) - 1),
                 !.instructions = push_front(@, history_entry.instruction)]
        p == remove_pushed(s1.stack, Len(history_entry.pushed_values))
    IN IF ~p.ok
       THEN Ret([s1 EXCEPT !.stack = p.vec], Err(StackUnderflow))
       ELSE Ret([s1 EXCEPT !.stack = restore_popped(p.vec, history_entry.popped_values)],
                Ok(Unit))

\* back() undoing a second record when the history still holds one.
back_twice(self) ==
    IF self.history = <<>> THEN Ret(self, Err(NoInstructions))
    ELSE LET u == undo(self)
         IN IF is_ok(u.result) /\ u.self.history # <<>> THEN undo(u.self) ELSE u

\* back() that takes an empty history for nothing to do.
back_unchecked(self) ==
    IF self.history = <<>> THEN Ret(self, Ok(Unit)) ELSE undo(self)

back(self) ==
    IF self.history = <<>> THEN Ret(self, Err(NoInstructions)) ELSE undo(self)

---------------------------------------------------------------------------
(* The interpreter driven by any caller.                                   *)

Self == Interpreter(instructions, stack, history)

\* A call made on the interpreter: `front` is the instruction at the front
\* of the queue when forward() is called (None for the other calls) and
\* `queued` the length of the queue when the call is made.
Call(op, front, r) ==
    /\ instructions' = r.self.instructions
    /\ stack' = r.self.stack
    /\ history' = r.self.history
    /\ last' = [op |-> op, front |-> front, queued |-> Len(instructions),
                result |-> r.result]

Min(m, n) == IF m <= n THEN m ELSE n

RECURSIVE SeqsUpTo(_, _)
SeqsUpTo(S, n) ==
    IF n = 0 THEN {<<>>}
    ELSE LET shorter == SeqsUpTo(S, n - 1)
         IN shorter \cup {Append(q, x) : q \in {t \in shorter : Len(t) = n - 1}, x \in S}

\* The slices add_instructions is called with, by longest length, and the
\* sequences the drain scenario loads.
Batches == [n \in 0..MaxBatch |-> SeqsUpTo(Instruction, n)]
Programs == SeqsUpTo(Instruction, MaxLen)

Idle == [pc |-> "free", input |-> <<>>, run_result |-> Ok(Unit), executed_count |-> 0]
Uncounted == [added |-> <<>>, succeeded |-> 0, failed |-> 0, undone |-> 0]
NotStarted ==
    [mode |-> "none", status |-> "idle", code |-> 0, reported |-> FALSE,
     message |-> "", rejected |-> 0]

Init ==
    /\ instructions = new.instructions
    /\ stack = new.stack
    /\ history = new.history
    /\ last = [op |-> "new", front |-> None, queued |-> 0, result |-> Ok(Unit)]
    /\ scenario = Idle
    /\ counts = Uncounted
    /\ cli = NotStarted

AddInstructions ==
    \E items \in Batches[Min(MaxBatch, MaxInstr - Len(history) - Len(instructions))] :
        /\ Call("add_instructions", None, Ret(add_instructions(Self, items), Ok(Unit)))
        /\ UNCHANGED <<scenario, counts, cli>>

Forward ==
    /\ Call("forward", current_instruction(Self).result, forward(Self))
    /\ UNCHANGED <<scenario, counts, cli>>

CurrentInstruction ==
    /\ Call("current_instruction", None, current_instruction(Self))
    /\ UNCHANGED <<scenario, counts, cli>>

Run ==
    /\ Call("run", None, run(Self))
    /\ UNCHANGED <<scenario, counts, cli>>

Back ==
    /\ Call("back", None, back(Self))
    /\ UNCHANGED <<scenario, counts, cli>>

Next == AddInstructions \/ CurrentInstruction \/ Forward \/ Run \/ Back

Spec == Init /\ [][Next]_vars

---------------------------------------------------------------------------
(* The drain scenario of test_property_reverse_execution: a fresh          *)
(* interpreter is loaded with one sequence, run, and then undone with      *)
(* back() until back() returns an error.                                   *)

DrainInit ==
    /\ instructions = new.instructions
    /\ stack = new.stack
    /\ history = new.history
    /\ last = [op |-> "new", front |-> None, queued |-> 0, result |-> Ok(Unit)]
    /\ scenario = [Idle EXCEPT !.pc = "new"]
    /\ counts = Uncounted
    /\ cli = NotStarted

DrainLoad ==
    /\ scenario.pc = "new"
    /\ \E items \in Programs :
        /\ Call("add_instructions", None, Ret(add_instructions(Self, items), Ok(Unit)))
        /\ scenario' = [scenario EXCEPT !.pc = "loaded", !.input = items]
        /\ UNCHANGED <<counts, cli>>

DrainRun ==
    /\ scenario.pc = "loaded"
    /\ LET r == run(Self)
       IN /\ Call("run", None, r)
          /\ scenario' = [scenario EXCEPT !.pc = "ran",
                                          !.run_result = r.result,
                                          !.executed_count = Len(r.self.history)]
          /\ UNCHANGED <<counts, cli>>

DrainBack ==
    /\ scenario.pc = "ran"
    /\ LET r == back(Self)
       IN /\ Call("back", None, r)
          /\ scenario' = [scenario EXCEPT
                            !.pc = IF is_ok(r.result) THEN "ran" ELSE "drained"]
          /\ UNCHANGED <<counts, cli>>

DrainNext == DrainLoad \/ DrainRun \/ DrainBack

DrainSpec == DrainInit /\ [][DrainNext]_vars

---------------------------------------------------------------------------
(* run() followed one iteration of its while loop at a time.  A caller     *)
(* makes any of the mutating calls; once it has called run(), the loop     *)
(* tests the queue, calls forward() and either goes round again or         *)
(* returns the error; nothing else touches the interpreter until run()     *)
(* has returned.  scenario.input is the queue run() was entered with and   *)
(* scenario.executed_count the forward() calls it has made since; both     *)
(* are kept until the caller's next call.                                  *)

Calling == [Idle EXCEPT !.pc = "calling"]

LoopInit ==
    /\ instructions = new.instructions
    /\ stack = new.stack
    /\ history = new.history
    /\ last = [op |-> "new", front |-> None, queued |-> 0, result |-> Ok(Unit)]
    /\ scenario = Calling
    /\ counts = Uncounted
    /\ cli = NotStarted

LoopAddInstructions ==
    /\ scenario.pc = "calling"
    /\ \E items \in Batches[Min(MaxBatch, MaxLooped - Len(history) - Len(instructions))] :
        Call("add_instructions", None, Ret(add_instructions(Self, items), Ok(Unit)))
    /\ scenario' = Calling
    /\ UNCHANGED <<counts, cli>>

LoopForward ==
    /\ scenario.pc = "calling"
    /\ Call("forward", current_instruction(Self).result, forward(Self))
    /\ scenario' = Calling
    /\ UNCHANGED <<counts, cli>>

LoopBack ==
    /\ scenario.pc = "calling"
    /\ Call("back", None, back(Self))
    /\ scenario' = Calling
    /\ UNCHANGED <<counts, cli>>

\* The call of run(): nothing has been executed yet.
RunEnter ==
    /\ scenario.pc = "calling"
    /\ scenario' = [Calling EXCEPT !.pc = "running", !.input = instructions]
    /\ UNCHANGED <<instructions, stack, history, last, counts, cli>>

\* One iteration: the queue is not empty, forward() is called, and `?`
\* returns its error from run() or lets the loop go round again.
RunIterate ==
    /\ scenario.pc = "running"
    /\ instructions # <<>>
    /\ LET r == forward(Self)
       IN /\ IF is_ok(r.result)
             THEN Call("forward", current_instruction(Self).result, r)
             ELSE Call("run", None, r)
          /\ scenario' = [scenario EXCEPT
                            !.pc = IF is_ok(r.result) THEN "running" ELSE "calling",
                            !.run_result = r.result,
                            !.executed_count = @ + 1]
    /\ UNCHANGED <<counts, cli>>

\* The loop condition fails: run() returns Ok(()).
RunReturn ==
    /\ scenario.pc = "running"
    /\ instructions = <<>>
    /\ Call("run", None, Ret(Self, Ok(Unit)))
    /\ scenario' = [scenario EXCEPT !.pc = "calling", !.run_result = Ok(Unit)]
    /\ UNCHANGED <<counts, cli>>

LoopNext ==
    \/ LoopAddInstructions \/ LoopForward \/ LoopBack
    \/ RunEnter \/ RunIterate \/ RunReturn

\* run() is straight-line code on one thread: once entered, its next step
\* is taken.  Nothing obliges the caller to make another call.
LoopFairness == WF_vars(RunIterate) /\ WF_vars(RunReturn)

LoopSpec == LoopInit /\ [][LoopNext]_vars /\ LoopFairness

---------------------------------------------------------------------------
(* The same calls with a tally kept beside the interpreter: every          *)
(* instruction passed to add_instructions, every forward step that         *)
(* succeeded, every forward step that failed after taking an instruction   *)
(* off the queue, and every back() that succeeded.  run() makes one        *)
(* forward step per turn of its loop.                                      *)

\* The forward steps of run() that succeed.
RECURSIVE forward_steps(_)
forward_steps(self) ==
    IF self.instructions = <<>> THEN 0
    ELSE LET r == forward(self)
         IN IF is_ok(r.result) THEN 1 + forward_steps(r.self) ELSE 0

Tally(added, succeeded, failed, undone) ==
    counts' = [added |-> counts.added \o added,
               succeeded |-> counts.succeeded + succeeded,
               failed |-> counts.failed + failed,
               undone |-> counts.undone + undone]

CountAddInstructions ==
    \E items \in Batches[Min(MaxBatch, MaxAdded - Len(counts.added))] :
        /\ Call("add_instructions", None, Ret(add_instructions(Self, items), Ok(Unit)))
        /\ Tally(items, 0, 0, 0)
        /\ UNCHANGED <<scenario, cli>>

CountForward ==
    LET r == forward(Self)
    IN /\ Call("forward", current_instruction(Self).result, r)
       /\ Tally(<<>>, IF is_ok(r.result) THEN 1 ELSE 0,
                IF instructions # <<>> /\ ~is_ok(r.result) THEN 1 ELSE 0, 0)
       /\ UNCHANGED <<scenario, cli>>

CountRun ==
    LET r == run(Self)
    IN /\ Call("run", None, r)
       /\ Tally(<<>>, forward_steps(Self), IF is_ok(r.result) THEN 0 ELSE 1, 0)
       /\ UNCHANGED <<scenario, cli>>

CountBack ==
    /\ history = <<>> \/ counts.undone < MaxUndone
    /\ LET r == back(Self)
       IN /\ Call("back", None, r)
          /\ Tally(<<>>, 0, 0, IF is_ok(r.result) THEN 1 ELSE 0)
          /\ UNCHANGED <<scenario, cli>>

CountNext == CountAddInstructions \/ CountForward \/ CountRun \/ CountBack

CountSpec == Init /\ [][CountNext]_vars

---------------------------------------------------------------------------
(* The front end of src/src/cli.rs.  A line of input is taken as its       *)
(* command word and, after it, the pieces between semicolons, each piece   *)
(* as its whitespace-separated tokens.                                     *)

\* str::to_lowercase and str::to_uppercase on the words of the model.
to_lowercase(word) == IF word = "Run" THEN "run" ELSE word
to_uppercase(token) == IF token = "pop" THEN "POP" ELSE token

\* A parse that takes what is not a number for zero.
parse_i32_lenient(token) ==
    CASE token = "-1" -> Some(-1)
      [] token = "2147483647" -> Some(I32_MAX)
      [] token = "-2147483648" -> Some(I32_MIN)
      [] OTHER -> Some(0)

\* str::parse::<i32> on the number tokens of the model.
parse_i32(token) ==
    CASE token = "0" -> Some(0)
      [] token = "-1" -> Some(-1)
      [] token = "2147483647" -> Some(I32_MAX)
      [] token = "-2147483648" -> Some(I32_MIN)
      [] OTHER -> None

parse_instruction(tokens) ==
    IF tokens = <<>> THEN Err(NoInstructions)
    ELSE LET command == to_uppercase(tokens[1])
         IN CASE command = "PUSH" ->
                   IF Len(tokens) # 2 THEN Err(InvalidCommand)
                   ELSE LET value == parse_i32(tokens[2])
                        IN IF value = None THEN Err(InvalidCommand)
                           ELSE Ok(Push(value[1]))
              [] command = "POP" -> Ok(Pop)
              [] command = "ADD" -> Ok(Add)
              [] command = "SUB" -> Ok(Sub)
              [] command = "MUL" -> Ok(Mul)
              [] command = "DIV" -> Ok(Div)
              [] OTHER -> Err(InvalidCommand)

\* The loop of parse_instructions_shell: empty pieces are skipped and the
\* pieces that do not parse are reported and left out.
RECURSIVE parse_pieces(_)
parse_pieces(pieces) ==
    IF pieces = <<>> THEN <<>>
    ELSE LET s == Head(pieces)
             rest == parse_pieces(Tail(pieces))
         IN IF s = <<>> THEN rest
            ELSE IF is_ok(parse_instruction(s)) THEN <<parse_instruction(s)[2]>> \o rest
            ELSE rest

\* The errors parse_instructions_shell prints for a line: one for each
\* piece of an add command that is not empty and does not parse.
parse_errors(input) ==
    IF to_lowercase(input.word) \in {"add", "add-instruction"}
    THEN Cardinality({i \in 1..Len(input.args) :
                        /\ input.args[i] # <<>>
                        /\ is_err(parse_instruction(input.args[i]))})
    ELSE 0

parse_instructions_shell(input) ==
    LET parsed == parse_pieces(input)
    IN IF parsed = <<>> THEN Err("No valid instructions provided") ELSE Ok(parsed)

\* Command
Command(name, items) == [name |-> name, instructions |-> items]

parse_command(input) ==
    IF input.word = "" THEN Err("Empty command")
    ELSE LET command_str == to_lowercase(input.word)
         IN CASE command_str \in {"add", "add-instruction"} ->
                   LET parsed == parse_instructions_shell(input.args)
                   IN IF is_err(parsed) THEN parsed
                      ELSE Ok(Command("AddInstruction", parsed[2]))
              [] command_str \in {"current", "current-instruction"} ->
                   Ok(Command("CurrentInstruction", <<>>))
              [] command_str = "queue" -> Ok(Command("InstructionQueue", <<>>))
              [] command_str = "forward" -> Ok(Command("Forward", <<>>))
              [] command_str = "run" -> Ok(Command("Run", <<>>))
              [] command_str = "back" -> Ok(Command("Back", <<>>))
              [] command_str \in {"print", "stack"} -> Ok(Command("PrintStack", <<>>))
              [] command_str = "help" -> Ok(Command("Help", <<>>))
              [] command_str = "exit" -> Ok(Command("Exit", <<>>))
              [] OTHER -> Err("Unknown command")

\* The ? of execute_command: the engine's value is dropped, its error kept.
propagate(r) == Ret(r.self, IF is_ok(r.result) THEN Ok(Unit) ELSE r.result)

execute_command(interpreter, command) ==
    CASE command.name = "AddInstruction" ->
           Ret(add_instructions(interpreter, command.instructions), Ok(Unit))
      [] command.name = "CurrentInstruction" ->
           Ret(current_instruction(interpreter).self, Ok(Unit))
      [] command.name = "Forward" -> propagate(forward(interpreter))
      [] command.name = "Run" -> propagate(run(interpreter))
      [] command.name = "Back" -> propagate(back(interpreter))
      [] OTHER -> Ret(interpreter, Ok(Unit))

\* A line that does not parse handed on as a runtime error.
parse_and_execute_command_strict(interpreter, input) ==
    LET parsed == parse_command(input)
    IN IF is_err(parsed)
       THEN [self |-> interpreter, result |-> Err(InvalidCommand), command |-> "none"]
       ELSE IF parsed[2].name = "Exit"
       THEN [self |-> interpreter, result |-> Ok(FALSE), command |-> "Exit"]
       ELSE LET r == execute_command(interpreter, parsed[2])
            IN [self |-> r.self,
                result |-> IF is_ok(r.result) THEN Ok(TRUE) ELSE r.result,
                command |-> parsed[2].name]

\* What a line does: the interpreter it leaves, whether the session goes
\* on (Ok(TRUE)), ends (Ok(FALSE)) or has an error to deal with, and the
\* command that was executed, if one was.
parse_and_execute_command(interpreter, input) ==
    LET parsed == parse_command(input)
    IN IF is_err(parsed)
       THEN [self |-> interpreter, result |-> Ok(TRUE), command |-> "none"]
       ELSE IF parsed[2].name = "Exit"
       THEN [self |-> interpreter, result |-> Ok(FALSE), command |-> "Exit"]
       ELSE LET r == execute_command(interpreter, parsed[2])
            IN [self |-> r.self,
                result |-> IF is_ok(r.result) THEN Ok(TRUE) ELSE r.result,
                command |-> parsed[2].name]

\* The session ends: run_script or run_shell returns, or the process exits.
returned(c) == [c EXCEPT !.status = "exited", !.code = 0]

\* The error of a line reported with exit status 0.
report_and_exit_zero(c) == [c EXCEPT !.reported = TRUE, !.status = "exited", !.code = 0]

\* The Err arm of run_script and the Err arm of run_shell.
report_and_exit(c) == [c EXCEPT !.reported = TRUE, !.status = "exited", !.code = 1]
report_and_continue(c) == [c EXCEPT !.reported = TRUE]

\* The lines given to a session whose interpreter has room for `room` more
\* instructions.
Words ==
    {"", "add", "add-instruction", "current", "current-instruction", "queue",
     "forward", "run", "Run", "back", "print", "stack", "help", "exit", "undo"}
Pieces ==
    {<<"PUSH", n>> : n \in {"0", "-1", "2147483647", "-2147483648", "2147483648", "x"}}
        \cup {<<"PUSH">>, <<"POP">>, <<"pop">>, <<"ADD">>, <<"SUB">>, <<"MUL">>,
              <<"DIV">>, <<"NOP">>, <<>>}
Arguments == [n \in 0..MaxBatch |-> SeqsUpTo(Pieces, n)]
Lines(room) ==
    {[word |-> w, args |-> <<>>] : w \in Words}
        \cup {[word |-> "add", args |-> a] : a \in Arguments[Min(MaxBatch, room)]}

\* A line of the session: what the interpreter becomes, what is noted as
\* the last call, and what the session does with the line's result
\* (`on_error` is what becomes of the session when the result is an error).
\* The session keeps what it printed about parsing: the message of the
\* last line that did not parse, and how many pieces of the last line
\* parse_instructions_shell reported as errors.
Line(on_error) ==
    \E input \in Lines(MaxHeld - Len(history) - Len(instructions)) :
        LET r == parse_and_execute_command(Self, input)
            parsed == parse_command(input)
        IN /\ Call(r.command, None,
                   Ret(r.self, IF r.result \in {Ok(TRUE), Ok(FALSE)} THEN Ok(Unit)
                               ELSE r.result))
           /\ cli' = [(IF r.result = Ok(TRUE) THEN cli
                       ELSE IF r.result = Ok(FALSE) THEN returned(cli)
                       ELSE on_error)
                      EXCEPT !.message = IF is_err(parsed) THEN parsed[2] ELSE @,
                             !.rejected = parse_errors(input)]

RunCli ==
    /\ cli.status = "idle"
    /\ \E mode \in {"script", "shell"} :
          cli' = [cli EXCEPT !.mode = mode, !.status = "running"]
    /\ Call("new", None, Ret(new, Ok(Unit)))
    /\ UNCHANGED <<scenario, counts>>

RunScriptLine ==
    /\ cli.mode = "script" /\ cli.status = "running"
    /\ Line(report_and_exit(cli))
    /\ UNCHANGED <<scenario, counts>>

\* The input of the script has no more lines.
RunScriptEnd ==
    /\ cli.mode = "script" /\ cli.status = "running"
    /\ cli' = returned(cli)
    /\ Call("end of input", None, Ret(Self, Ok(Unit)))
    /\ UNCHANGED <<scenario, counts>>

RunShellLine ==
    /\ cli.mode = "shell" /\ cli.status = "running"
    /\ Line(report_and_continue(cli))
    /\ UNCHANGED <<scenario, counts>>

\* readline fails: interrupted, end of input or another error.
RunShellEnd ==
    /\ cli.mode = "shell" /\ cli.status = "running"
    /\ cli' = returned(cli)
    /\ Call("end of input", None, Ret(Self, Ok(Unit)))
    /\ UNCHANGED <<scenario, counts>>

CliNext == RunCli \/ RunScriptLine \/ RunScriptEnd \/ RunShellLine \/ RunShellEnd

CliSpec == Init /\ [][CliNext]_vars

---------------------------------------------------------------------------
(* Exact integer arithmetic on i32 operands, computed without any          *)
(* intermediate value leaving the i32 range: the yardstick forward()'s     *)
(* checked arithmetic is measured against.  Each gives Some(result) when   *)
(* the mathematical result is an i32 and None when it is not.              *)

\* floor((a + b) / 2) and floor((a - b) / 2)
HalfSum(a, b) == (a \div 2) + (b \div 2) + (((a % 2) + (b % 2)) \div 2)
HalfDiff(a, b) == (a \div 2) - (b \div 2) + (((a % 2) - (b % 2)) \div 2)
InHalfRange(h) == (I32_MIN \div 2) <= h /\ h <= (I32_MAX \div 2)

ExactAdd(a, b) == IF InHalfRange(HalfSum(a, b)) THEN Some(a + b) ELSE None
ExactSub(a, b) == IF InHalfRange(HalfDiff(a, b)) THEN Some(a - b) ELSE None

\* a * b by halving b toward zero: b = 2t + r with r in {-1, 0, 1}, so every
\* partial product lies between 0 and a * b.
RECURSIVE ExactMul(_, _)
ExactMul(a, b) ==
    IF b = 0 THEN Some(0)
    ELSE LET t == IF b > 0 THEN b \div 2 ELSE (b + 1) \div 2
             r == b - (t + t)
             h == ExactMul(a, t)
             d == IF h = None THEN None ELSE ExactAdd(h[1], h[1])
         IN IF d = None THEN None
            ELSE IF r = 0 THEN d
            ELSE IF r = 1 THEN ExactAdd(d[1], a)
            ELSE ExactSub(d[1], a)

\* -|x|, which every i32 has.
NegAbs(x) == IF x > 0 THEN -x ELSE x

\* q is a / b rounded toward zero: a = q * b + r with |r| < |b| and r zero
\* or of a's sign.
IsTruncatedQuotient(a, b, q) ==
    LET p == ExactMul(q, b)
        r == IF p = None THEN None ELSE ExactSub(a, p[1])
    IN /\ r # None
       /\ NegAbs(r[1]) > NegAbs(b)
       /\ (r[1] = 0 \/ ((r[1] > 0) <=> (a > 0)))

\* The mathematical result of a binary instruction on a (deeper) and b (top)
\* is not an i32.  Only MIN / -1 takes a quotient out of the range.
OutOfRange(instruction, a, b) ==
    CASE instruction = Add -> ExactAdd(a, b) = None
      [] instruction = Sub -> ExactSub(a, b) = None
      [] instruction = Mul -> ExactMul(a, b) = None
      [] instruction = Div -> b = -1 /\ ExactSub(0, a) = None

\* r is the mathematical result of the instruction on a and b.
IsResult(instruction, a, b, r) ==
    CASE instruction = Add -> ExactAdd(a, b) = Some(r)
      [] instruction = Sub -> ExactSub(a, b) = Some(r)
      [] instruction = Mul -> ExactMul(a, b) = Some(r)
      [] instruction = Div -> b # 0 /\ IsTruncatedQuotient(a, b, r)

Arithmetic == {Add, Sub, Mul, Div}
Top(s) == s[Len(s)]
Second(s) == s[Len(s) - 1]
Dequeued == [Self EXCEPT !.instructions = Tail(@)]
FrontIs(S) == instructions # <<>> /\ Head(instructions) \in S
HistoryInstructions == [i \in 1..Len(history) |-> history[i].instruction]

---------------------------------------------------------------------------
(* Claims.                                                                 *)

\* C1: round trip.  In every reachable state, if forward() succeeds then a
\* back() made right after it succeeds too and leaves the stack, the queue
\* (the same instruction at the front again, the rest in order) and the
\* history exactly as they were before forward().
C1_RoundTrip ==
    LET f == forward(Self)
    IN is_ok(f.result) =>
         LET b == back(f.self)
         IN /\ b.result = Ok(Unit)
            /\ b.self.stack = stack
            /\ b.self.instructions = instructions
            /\ b.self.history = history

\* A back() has just undone a Sub whose operands differ, leaving it at the
\* front of a longer queue, and forward() succeeds from here.
C1_Witness ==
    /\ last.op = "back" /\ last.result = Ok(Unit)
    /\ Len(instructions) >= 2 /\ Head(instructions) = Sub
    /\ Len(stack) >= 2 /\ Top(stack) # Second(stack)
    /\ is_ok(forward(Self).result)

\* C2: drain after success.  A fresh interpreter loaded with a sequence on
\* which run() returns Ok, then undone with back() until back() fails, ends
\* with back() returning NoInstructions, the stack empty and the queue equal
\* to the sequence loaded, in order.
C2_DrainAfterSuccess ==
    (scenario.pc = "drained" /\ scenario.run_result = Ok(Unit)) =>
        /\ last.result = Err(NoInstructions)
        /\ stack = <<>>
        /\ history = <<>>
        /\ instructions = scenario.input

\* A sequence of at least three instructions with a binary operation in it
\* ran to the end and was drained.
C2_Witness ==
    /\ scenario.pc = "drained" /\ scenario.run_result = Ok(Unit)
    /\ Len(scenario.input) >= 3
    /\ \E i \in 1..Len(scenario.input) : scenario.input[i] \in Arithmetic

\* C3: drain after failure.  When run() on a fresh interpreter loaded with I
\* fails at I[k] (k instructions executed before it), then after every
\* back() that follows the history's instructions followed by the queue are
\* I without I[k], and once back() returns NoInstructions the stack is empty
\* and the queue is I[0..k) followed by I[k+1..]: the failed instruction is
\* never queued again.
C3_DrainAfterFailure ==
    (scenario.pc \in {"ran", "drained"} /\ is_err(scenario.run_result)) =>
        LET I == scenario.input
            k == scenario.executed_count
            rest == SubSeq(I, 1, k) \o SubSeq(I, k + 2, Len(I))
        IN /\ k < Len(I)
           /\ HistoryInstructions \o instructions = rest
           /\ scenario.pc = "drained" =>
                /\ last.result = Err(NoInstructions)
                /\ stack = <<>>
                /\ history = <<>>
                /\ instructions = rest

\* run() failed in the middle of the sequence, with instructions executed
\* before the failure and instructions left after it, and the drain is over.
C3_Witness ==
    /\ scenario.pc = "drained" /\ is_err(scenario.run_result)
    /\ scenario.executed_count >= 2
    /\ scenario.executed_count + 1 < Len(scenario.input)

\* C4: divide by zero.  forward() on Div with at least two stack values and
\* the top one 0 returns DivideByZero, leaves the stack and the history as
\* they were and has removed the Div from the queue.
C4_DivideByZero ==
    (FrontIs({Div}) /\ Len(stack) >= 2 /\ Top(stack) = 0) =>
        forward(Self) = Ret(Dequeued, Err(DivideByZero))

\* forward() has just failed on a Div whose divisor is 0 and whose dividend
\* is not.
C4_Witness ==
    /\ last.op = "forward" /\ last.front = Some(Div)
    /\ last.result = Err(DivideByZero)
    /\ Len(stack) >= 2 /\ Top(stack) = 0 /\ Second(stack) # 0

\* C5: overflow.  forward() on Add, Sub, Mul or Div with operands a (deeper)
\* and b (top) whose mathematical result is no i32 (MIN / -1 included)
\* returns ArithmeticOverflow and leaves the stack and the history as they
\* were: no wrapped value is pushed.
C5_Overflow ==
    (/\ FrontIs(Arithmetic) /\ Len(stack) >= 2
     /\ OutOfRange(Head(instructions), Second(stack), Top(stack))) =>
        forward(Self) = Ret(Dequeued, Err(ArithmeticOverflow))

\* forward() has just failed with ArithmeticOverflow on operands that differ.
C5_Witness ==
    /\ last.op = "forward" /\ last.result = Err(ArithmeticOverflow)
    /\ last.front \in {Some(Add), Some(Sub), Some(Mul), Some(Div)}
    /\ Len(stack) >= 2 /\ Top(stack) # Second(stack)
    /\ OutOfRange(last.front[1], Second(stack), Top(stack))

\* C6: underflow.  forward() returns StackUnderflow exactly when the front
\* instruction is Pop and the stack is empty, or is Add/Sub/Mul/Div and the
\* stack holds fewer than two values; then the stack and the history are
\* unchanged and only the front instruction has left the queue.
C6_Underflow ==
    LET f == forward(Self)
        short == \/ FrontIs({Pop}) /\ stack = <<>>
                 \/ FrontIs(Arithmetic) /\ Len(stack) < 2
    IN /\ (f.result = Err(StackUnderflow)) <=> short
       /\ short => f.self = Dequeued

\* forward() has just failed with StackUnderflow on a binary operation with
\* one value on the stack.
C6_Witness ==
    /\ last.op = "forward" /\ last.result = Err(StackUnderflow)
    /\ last.front = Some(Mul)
    /\ Len(stack) = 1 /\ history # <<>>

\* C7: forward() on an empty queue returns NoInstructions and changes
\* neither the queue, the stack nor the history.
C7_ForwardOnEmptyQueue ==
    instructions = <<>> => forward(Self) = Ret(Self, Err(NoInstructions))

\* forward() has just been refused on an empty queue, with values on the
\* stack and records in the history.
C7_Witness ==
    /\ last.op = "forward" /\ last.front = None
    /\ last.result = Err(NoInstructions)
    /\ instructions = <<>> /\ stack # <<>> /\ history # <<>>

\* C8: back() on an empty history returns NoInstructions and changes
\* neither the queue, the stack nor the history.
C8_BackOnEmptyHistory ==
    history = <<>> => back(Self) = Ret(Self, Err(NoInstructions))

\* back() has just been refused on an empty history while instructions are
\* queued.
C8_Witness ==
    /\ last.op = "back" /\ last.result = Err(NoInstructions)
    /\ history = <<>> /\ Len(instructions) >= 2

\* C9: back() never fails on a history that holds a record.  In every
\* reachable state the stack holds at least as many values as the last
\* record pushed, back() succeeds there, and no back() made has returned
\* StackUnderflow.
C9_BackNeverUnderflows ==
    /\ history # <<>> =>
         /\ Len(stack) >= Len(Top(history).pushed_values)
         /\ back(Self).result = Ok(Unit)
    /\ last.op = "back" => last.result # Err(StackUnderflow)

\* back() has just succeeded and the stack holds exactly the one value the
\* record now last in the history pushed.
C9_Witness ==
    /\ last.op = "back" /\ last.result = Ok(Unit)
    /\ history # <<>> /\ Len(Top(history).pushed_values) = 1
    /\ Len(stack) = 1

\* C10: arithmetic result.  When forward() succeeds on Add/Sub/Mul/Div with
\* the stack ..., a, b (b on top), the new stack is the old one with a and b
\* replaced by a+b, a-b, a*b or a/b rounded toward zero, and everything
\* below a is unchanged.
C10_ArithmeticResult ==
    LET f == forward(Self)
    IN (FrontIs(Arithmetic) /\ is_ok(f.result)) =>
         /\ Len(stack) >= 2
         /\ Len(f.self.stack) = Len(stack) - 1
         /\ SubSeq(f.self.stack, 1, Len(stack) - 2) = SubSeq(stack, 1, Len(stack) - 2)
         /\ IsResult(Head(instructions), Second(stack), Top(stack), Top(f.self.stack))

\* forward() has just divided MIN by MAX, a quotient that is not whole and
\* is negative, above another value.
C10_Witness ==
    /\ last.op = "forward" /\ last.result = Ok(Div)
    /\ Top(history).popped_values = <<I32_MAX, I32_MIN>>
    /\ Len(stack) = 2 /\ Top(stack) = -1

\* The interpreter after its first n queued instructions have been executed
\* one at a time, and whether each of them succeeds.
RECURSIVE Executed(_, _)
Executed(self, n) ==
    IF n = 0 THEN self ELSE Executed(forward(self).self, n - 1)

RECURSIVE Succeed(_, _)
Succeed(self, n) ==
    \/ n = 0
    \/ /\ is_ok(forward(self).result)
       /\ Succeed(forward(self).self, n - 1)

\* C11: run() stops at the first failing instruction.  In every reachable
\* state, if run() returns an error then there is a queue position k such
\* that positions 0..k-1 execute successfully, the instruction at k fails
\* with that error, and run() leaves the queue holding exactly the
\* instructions after position k, in order, with the stack and the history
\* as the execution of positions 0..k-1 left them.
C11_RunStopsAtFirstFailure ==
    LET r == run(Self)
        n == Len(instructions)
    IN is_err(r.result) =>
         \E k \in 0..(n - 1) :
            LET before == Executed(Self, k)
            IN /\ Succeed(Self, k)
               /\ forward(before).result = r.result
               /\ r.self.instructions = SubSeq(instructions, k + 2, n)
               /\ r.self.stack = before.stack
               /\ r.self.history = before.history

\* run() was called with at least three instructions queued and has just
\* failed after executing some of them, with others still queued behind the
\* one that failed.
C11_Witness ==
    /\ last.op = "run" /\ is_err(last.result)
    /\ last.queued >= 3
    /\ instructions # <<>> /\ history # <<>>
    /\ Len(instructions) + 1 < last.queued

\* C12: run() returns Ok exactly when every queued instruction executes
\* successfully in order.  After an Ok return the queue is empty, the old
\* history is still there and one record per queued instruction has been
\* added to it, in the order of the queue; on an empty queue run() returns
\* Ok and changes nothing.
C12_RunOk ==
    LET r == run(Self)
        n == Len(instructions)
        h == Len(history)
    IN /\ is_ok(r.result) <=> Succeed(Self, n)
       /\ is_ok(r.result) =>
            /\ r.result = Ok(Unit)
            /\ r.self.instructions = <<>>
            /\ Len(r.self.history) = h + n
            /\ SubSeq(r.self.history, 1, h) = history
            /\ \A i \in 1..n : r.self.history[h + i].instruction = instructions[i]
            /\ r.self.stack = Executed(Self, n).stack
       /\ n = 0 => r = Ret(Self, Ok(Unit))

\* run() was called with at least three instructions queued, one of them
\* binary, and has just returned Ok.
C12_Witness ==
    /\ last.op = "run" /\ last.result = Ok(Unit)
    /\ last.queued >= 3
    /\ instructions = <<>>
    /\ \E i \in 1..Len(history) :
          /\ i > Len(history) - last.queued
          /\ history[i].instruction \in Arithmetic

\* The call came back, with Ok or with one of the four errors the engine
\* raises.
Returned(result) ==
    \/ is_ok(result)
    \/ /\ is_err(result)
       /\ result[2] \in {DivideByZero, StackUnderflow, NoInstructions, ArithmeticOverflow}

\* C13: no panic.  Whatever add_instructions, forward(), run() and back()
\* calls have been made on a new interpreter, every call made has returned
\* Ok or one of DivideByZero, StackUnderflow, NoInstructions and
\* ArithmeticOverflow, and so does any of forward(), run() and back() made
\* next: the unreachable!() arm is not entered, and when the length check of
\* a binary instruction passes both operand pops find a value.
C13_NoPanic ==
    /\ last.op \in {"new", "add_instructions", "forward", "run", "back"} =>
         Returned(last.result)
    /\ Returned(forward(Self).result)
    /\ Returned(run(Self).result)
    /\ Returned(back(Self).result)
    /\ (FrontIs(Arithmetic) /\ ~underflow(stack)) =>
         /\ vec_pop(stack).value # None
         /\ vec_pop(vec_pop(stack).vec).value # None

\* A Pop is at the front of the queue above a stack of two values or more,
\* after a binary instruction has just been refused for overflow.
C13_Witness ==
    /\ last.op = "forward" /\ last.result = Err(ArithmeticOverflow)
    /\ FrontIs({Pop}) /\ Len(stack) >= 2
    /\ history # <<>>

\* C14: history length.  In every reachable state the history holds as many
\* records as forward steps have succeeded less the back() calls that have
\* succeeded; a forward() or a back() that fails from here, and any
\* add_instructions, leaves the history as long as it is.
C14_HistoryLength ==
    /\ Len(history) = counts.succeeded - counts.undone
    /\ is_err(forward(Self).result) => Len(forward(Self).self.history) = Len(history)
    /\ is_err(back(Self).result) => Len(back(Self).self.history) = Len(history)
    /\ \A items \in Batches[Min(MaxBatch, MaxAdded - Len(counts.added))] :
          Len(add_instructions(Self, items).history) = Len(history)

\* Three forward steps have succeeded, one has failed and one back() has
\* succeeded, and records are left in the history.
C14_Witness ==
    /\ counts.succeeded >= 3 /\ counts.failed >= 1 /\ counts.undone >= 1
    /\ history # <<>>

\* C15: conservation.  In every reachable state the history and the queue
\* together hold as many instructions as were ever passed to
\* add_instructions less the forward steps that failed after taking an
\* instruction off the queue; and a run() on an interpreter that has only
\* been loaded leaves one instruction fewer than were loaded if it fails and
\* all of them if it succeeds.
C15_Conservation ==
    /\ Len(history) + Len(instructions) = Len(counts.added) - counts.failed
    /\ (history = <<>> /\ stack = <<>> /\ instructions = counts.added) =>
         LET r == run(Self)
         IN Len(counts.added) - (Len(r.self.history) + Len(r.self.instructions))
              = IF is_err(r.result) THEN 1 ELSE 0

\* run() on an interpreter that had only been loaded with three
\* instructions has just failed on the second, leaving one record in the
\* history and one instruction queued.
C15_Witness ==
    /\ last.op = "run" /\ is_err(last.result)
    /\ Len(counts.added) = 3 /\ last.queued = 3
    /\ counts.succeeded = 1 /\ counts.failed = 1 /\ counts.undone = 0
    /\ Len(history) = 1 /\ Len(instructions) = 1

\* How often x occurs in seq, and seq without the elements at the positions
\* in D.
Occurrences(x, seq) == Cardinality({i \in 1..Len(seq) : seq[i] = x})

RECURSIVE Kept(_, _)
Kept(seq, D) ==
    IF seq = <<>> THEN <<>>
    ELSE LET front == Kept(SubSeq(seq, 1, Len(seq) - 1), D)
         IN IF Len(seq) \in D THEN front ELSE Append(front, seq[Len(seq)])

\* C16 as stated: in every reachable state the instructions in the queue
\* together with those recorded in the history contain every instruction
\* ever added with add_instructions, as often as it was added.
C16_Superset ==
    \A x \in Instruction :
        Occurrences(x, counts.added)
            <= Occurrences(x, HistoryInstructions \o instructions)

\* C16, amended: in every reachable state the instructions recorded in the
\* history followed by those in the queue are the instructions ever added
\* with add_instructions, in the order they were added, less one for each
\* forward step that failed after taking an instruction off the queue; they
\* are all of them while no forward step has failed.
C16_AddedLessFailed ==
    /\ \E D \in SUBSET (1..Len(counts.added)) :
          /\ Cardinality(D) = counts.failed
          /\ HistoryInstructions \o instructions = Kept(counts.added, D)
    /\ counts.failed = 0 => HistoryInstructions \o instructions = counts.added

\* A forward step has failed and a back() has succeeded, and both the
\* history and the queue hold an instruction, the two being different.
C16_Witness ==
    /\ counts.failed >= 1 /\ counts.undone >= 1
    /\ history # <<>> /\ instructions # <<>>
    /\ Top(history).instruction # Head(instructions)

\* C17: add_instructions appends.  In every reachable state, whatever items
\* it is given, add_instructions leaves a queue that is the old queue, as it
\* was, followed by the items in the order given, and leaves the stack and
\* the history as they were; no item is refused, whether or not it can be
\* executed.
C17_AddInstructionsAppends ==
    \A items \in Batches[Min(MaxBatch, MaxInstr - Len(history) - Len(instructions))] :
        LET a == add_instructions(Self, items)
            q == a.instructions
            n == Len(instructions)
        IN /\ Len(q) = n + Len(items)
           /\ \A i \in 1..n : q[i] = instructions[i]
           /\ \A j \in 1..Len(items) : q[n + j] = items[j]
           /\ a.stack = stack
           /\ a.history = history

\* add_instructions has just put two different instructions behind a queue
\* that was not empty, the first of them one that cannot be executed on the
\* stack as it is, with values on the stack and a record in the history.
C17_Witness ==
    /\ last.op = "add_instructions" /\ last.queued >= 1
    /\ Len(instructions) = last.queued + 2
    /\ instructions[last.queued + 1] # instructions[last.queued + 2]
    /\ instructions[last.queued + 1] = Div
    /\ Len(stack) = 1 /\ history # <<>>

\* C18: back() undoes one record.  In every reachable state with a record
\* in the history, back() succeeds, removes the last record and no other,
\* and puts that record's instruction at the front of the queue with the
\* instructions already queued behind it in the order they had; it is the
\* instruction a forward() made next takes off the queue and, when that
\* forward() succeeds, returns.
C18_BackUndoesOneRecord ==
    history # <<>> =>
        LET b == back(Self)
            entry == Top(history)
            f == forward(b.self)
        IN /\ b.result = Ok(Unit)
           /\ b.self.history = SubSeq(history, 1, Len(history) - 1)
           /\ Len(b.self.instructions) = Len(instructions) + 1
           /\ Head(b.self.instructions) = entry.instruction
           /\ Tail(b.self.instructions) = instructions
           /\ f.self.instructions = instructions
           /\ is_ok(f.result) => f.result = Ok(entry.instruction)

\* back() has just put a Pop in front of two queued instructions that are
\* not Pop, and records remain in the history.
C18_Witness ==
    /\ last.op = "back" /\ last.result = Ok(Unit)
    /\ last.queued = 2 /\ Len(instructions) = 3
    /\ instructions[1] = Pop /\ instructions[2] # Pop /\ instructions[3] # Pop
    /\ instructions[2] # instructions[3]
    /\ history # <<>>

\* C19: current_instruction() peeks.  In every reachable state it returns
\* None exactly when the queue is empty and otherwise the instruction at
\* the front, which is the one a forward() made next takes off the queue
\* (and returns when it succeeds); the call leaves the queue, the stack and
\* the history as they were.
C19_CurrentInstructionPeeks ==
    LET c == current_instruction(Self)
        f == forward(c.self)
    IN /\ c.self = Self
       /\ c.result = None <=> instructions = <<>>
       /\ instructions # <<>> =>
            /\ c.result = Some(Head(instructions))
            /\ <<c.result[1]>> \o f.self.instructions = instructions
            /\ is_ok(f.result) => f.result = Ok(c.result[1])
       /\ last.op = "current_instruction" =>
            last.result = c.result

\* current_instruction() has just returned the Sub at the front of a queue
\* of three different instructions, with values on the stack and a record
\* in the history.
C19_Witness ==
    /\ last.op = "current_instruction" /\ last.result = Some(Sub)
    /\ Len(instructions) = 3
    /\ instructions[2] # Sub /\ instructions[3] # Sub
    /\ stack # <<>> /\ history # <<>>

\* The line just executed made an engine call that returned an error, and
\* what that call makes of an interpreter.
EngineFailed == last.op \in {"Forward", "Run", "Back"} /\ is_err(last.result)
EngineCall(name, self) ==
    CASE name = "Forward" -> forward(self)
      [] name = "Run" -> run(self)
      [] name = "Back" -> back(self)

\* C20: error policy of the front end.  A session that has ended executes
\* nothing more.  When the engine call of a line returns an error, a script
\* session ends there with a non-zero exit status, and a shell session
\* reports the error and keeps running on the interpreter as the failed
\* call left it.
C20_ErrorPolicy ==
    [][/\ cli.status # "exited"
       /\ EngineFailed' =>
            /\ cli.mode = "script" =>
                 /\ cli'.status = "exited"
                 /\ cli'.code # 0
            /\ cli.mode = "shell" =>
                 /\ cli'.status = "running"
                 /\ cli'.reported
                 /\ Interpreter(instructions', stack', history')
                      = EngineCall(last'.op, Self).self
                 /\ last'.result = EngineCall(last'.op, Self).result]_vars

\* A shell session that has reported an error is still running and has
\* just executed a forward command that succeeded, after at least one
\* other instruction.
C20_Witness ==
    /\ cli.mode = "shell" /\ cli.status = "running" /\ cli.reported
    /\ last.op = "Forward" /\ is_ok(last.result)
    /\ Len(history) >= 2

\* The grammar of instructions, piece by piece: the instruction a piece of
\* an add line stands for, None when it stands for none.
Meaning(piece) ==
    CASE piece = <<"PUSH", "0">> -> Some(Push(0))
      [] piece = <<"PUSH", "-1">> -> Some(Push(-1))
      [] piece = <<"PUSH", "2147483647">> -> Some(Push(I32_MAX))
      [] piece = <<"PUSH", "-2147483648">> -> Some(Push(I32_MIN))
      [] piece \in {<<"POP">>, <<"pop">>} -> Some(Pop)
      [] piece = <<"ADD">> -> Some(Add)
      [] piece = <<"SUB">> -> Some(Sub)
      [] piece = <<"MUL">> -> Some(Mul)
      [] piece = <<"DIV">> -> Some(Div)
      [] OTHER -> None

RECURSIVE Meant(_)
Meant(pieces) ==
    IF pieces = <<>> THEN <<>>
    ELSE LET m == Meaning(Head(pieces))
         IN (IF m = None THEN <<>> ELSE <<m[1]>>) \o Meant(Tail(pieces))

\* C21: parser contract.  In every state of a session, whatever add line
\* is read next, the queue becomes the old queue followed by the
\* instructions the valid pieces of the line stand for, in the order of
\* the line, and by nothing for a piece with an invalid token or a
\* malformed PUSH argument; the stack and the history stay as they are,
\* and a line with no valid piece leaves the interpreter unchanged.  The
\* line never ends the session.
C21_ParserContract ==
    \A input \in Lines(MaxHeld - Len(history) - Len(instructions)) :
        to_lowercase(input.word) \in {"add", "add-instruction"} =>
            LET r == parse_and_execute_command(Self, input)
                meant == Meant(input.args)
            IN /\ r.self.instructions = instructions \o meant
               /\ r.self.stack = stack
               /\ r.self.history = history
               /\ r.result = Ok(TRUE)
               /\ meant = <<>> => r.self = Self /\ r.command = "none"

\* An add line has just been read of which one piece was reported as an
\* error and one was enqueued.
C21_Witness ==
    /\ cli.status = "running"
    /\ last.op = "AddInstruction" /\ cli.rejected = 1
    /\ last.queued = 0 /\ Len(instructions) = 1

\* The line is empty, names no command, or is an add line none of whose
\* pieces stands for an instruction.
FailsToParse(input) ==
    \/ input.word = ""
    \/ input.word \notin
         {"add", "add-instruction", "current", "current-instruction", "queue",
          "forward", "run", "Run", "back", "print", "stack", "help", "exit"}
    \/ /\ input.word \in {"add", "add-instruction"}
       /\ Meant(input.args) = <<>>

\* C27: parse failures are not runtime errors.  In every state of a
\* session a line that is empty, names an unknown command or is an add
\* with no valid instruction leaves the interpreter as it is and lets the
\* session go on; a script session that has just skipped such a line is
\* still running with exit status 0, and a session has a non-zero exit
\* status only when the engine call of its last line returned an error.
C27_ParseFailuresSkipped ==
    /\ \A input \in Lines(MaxHeld - Len(history) - Len(instructions)) :
          FailsToParse(input) =>
              LET r == parse_and_execute_command(Self, input)
              IN /\ r.self = Self
                 /\ r.result = Ok(TRUE)
                 /\ r.command = "none"
                 /\ is_err(parse_command(input))
    /\ (cli.mode = "script" /\ last.op = "none") =>
          /\ cli.status = "running"
          /\ cli.code = 0
          /\ cli.message \in {"Empty command", "Unknown command",
                               "No valid instructions provided"}
    /\ cli.code # 0 => EngineFailed

\* A script session that skipped an add line with no valid instruction has
\* gone on to run the instructions of a later line and is still running.
C27_Witness ==
    /\ cli.mode = "script" /\ cli.status = "running"
    /\ cli.message = "No valid instructions provided"
    /\ last.op = "Run" /\ is_ok(last.result)
    /\ Len(history) = 2

\* C25: InvalidCommand comes from the parser only.  In every reachable
\* state forward(), run() and back() do not return InvalidCommand and the
\* last call made did not (add_instructions returns nothing that could be
\* one); parse_instruction returns it for every piece that is not empty
\* and stands for no instruction.
C25_InvalidCommandFromParserOnly ==
    /\ forward(Self).result # Err(InvalidCommand)
    /\ run(Self).result # Err(InvalidCommand)
    /\ back(Self).result # Err(InvalidCommand)
    /\ last.result # Err(InvalidCommand)
    /\ \A piece \in Pieces :
          (piece # <<>> /\ Meaning(piece) = None) =>
              parse_instruction(piece) = Err(InvalidCommand)

\* run() has just returned ArithmeticOverflow, after a back() had
\* succeeded, and has left both operands on the stack.
C25_Witness ==
    /\ last.op = "run" /\ last.result = Err(ArithmeticOverflow)
    /\ counts.undone >= 1 /\ Len(stack) = 2

\* C22: what a successful forward() does.  In every reachable state, if
\* forward() succeeds then it takes the front instruction off the queue and
\* leaves the rest in order, returns that instruction, and adds to the
\* history, after the records already there, one record carrying that
\* instruction; for Push(v) the stack becomes the old stack with v on top,
\* for Pop the old stack without its top value.
C22_ForwardSuccess ==
    LET f == forward(Self)
        h == Len(history)
    IN is_ok(f.result) =>
         /\ instructions # <<>>
         /\ f.self.instructions = Tail(instructions)
         /\ f.result = Ok(Head(instructions))
         /\ Len(f.self.history) = h + 1
         /\ SubSeq(f.self.history, 1, h) = history
         /\ f.self.history[h + 1].instruction = Head(instructions)
         /\ Head(instructions)[1] = "Push" =>
              f.self.stack = Append(stack, Head(instructions)[2])
         /\ Head(instructions) = Pop =>
              /\ stack # <<>>
              /\ f.self.stack = SubSeq(stack, 1, Len(stack) - 1)

\* A Pop is at the front of a queue of two instructions or more, above a
\* stack of two different values and a history of two records or more, and
\* the forward() before it succeeded.
C22_Witness ==
    /\ last.op = "forward" /\ is_ok(last.result)
    /\ Len(instructions) >= 2 /\ Head(instructions) = Pop
    /\ Len(stack) = 2 /\ Top(stack) # Second(stack)
    /\ Len(history) >= 2

\* The stack a new interpreter has after running the first n instructions
\* recorded in the history.
StackBefore(n) ==
    run(Interpreter(SubSeq(HistoryInstructions, 1, n), <<>>, <<>>)).self.stack

\* C23: shape of the history records.  In every reachable state each
\* record of the history has, for Push(v), nothing popped and v pushed; for
\* Pop, the value that was on top popped and nothing pushed; and for
\* Add/Sub/Mul/Div on a (deeper) and b (top), b then a popped and the one
\* value a op b pushed.
C23_RecordShape ==
    \A i \in 1..Len(history) :
        LET entry == history[i]
            before == StackBefore(i - 1)
        IN CASE entry.instruction[1] = "Push" ->
                  /\ entry.popped_values = <<>>
                  /\ entry.pushed_values = <<entry.instruction[2]>>
             [] entry.instruction = Pop ->
                  /\ before # <<>>
                  /\ entry.popped_values = <<Top(before)>>
                  /\ entry.pushed_values = <<>>
             [] OTHER ->
                  /\ entry.instruction \in Arithmetic
                  /\ Len(before) >= 2
                  /\ entry.popped_values = <<Top(before), Second(before)>>
                  /\ Len(entry.pushed_values) = 1
                  /\ IsResult(entry.instruction, Second(before), Top(before),
                              entry.pushed_values[1])

\* The history ends with the record of a Sub of two different operands,
\* made after a forward step had failed and a back() had succeeded.
C23_Witness ==
    /\ Len(history) = 3 /\ Top(history).instruction = Sub
    /\ Top(history).popped_values[1] # Top(history).popped_values[2]
    /\ counts.undone >= 1

\* C24: undo of a binary instruction.  In every reachable state whose last
\* record is that of an Add, Sub, Mul or Div with b then a popped, back()
\* succeeds and leaves the stack as it is now without its top value, the
\* result, and with a and then b in its place: a below b, as they were
\* before the instruction was executed.
C24_UndoRestoresOperands ==
    (history # <<>> /\ Top(history).instruction \in Arithmetic) =>
        LET entry == Top(history)
            b == entry.popped_values[1]
            a == entry.popped_values[2]
            u == back(Self)
        IN /\ u.result = Ok(Unit)
           /\ stack # <<>>
           /\ Top(stack) = entry.pushed_values[1]
           /\ u.self.stack = SubSeq(stack, 1, Len(stack) - 1) \o <<a, b>>

\* back() has just undone a Div, leaving its two different operands on the
\* stack above a third value.
C24_Witness ==
    /\ last.op = "back" /\ last.result = Ok(Unit)
    /\ instructions # <<>> /\ Head(instructions) = Div
    /\ Len(stack) = 3 /\ Top(stack) # Second(stack)

\* C28: the stack is a function of the history.  In every reachable state
\* a new interpreter given the instructions recorded in the history, in
\* order, runs them all and ends with the stack, and the history, of this
\* state; so the stack is empty whenever the history is.
C28_StackFromHistory ==
    LET replay == run(Interpreter(HistoryInstructions, <<>>, <<>>))
    IN /\ replay.result = Ok(Unit)
       /\ replay.self.stack = stack
       /\ replay.self.history = history
       /\ history = <<>> => stack = <<>>

\* A forward step has just been refused for overflow, after a back() had
\* succeeded, and its two operands are on the stack, pushed by the two
\* records of the history.
C28_Witness ==
    /\ last.result = Err(ArithmeticOverflow)
    /\ counts.undone >= 1 /\ counts.failed = 1
    /\ Len(history) = 2 /\ Len(stack) = 2

\* C29: redo round trip.  In every reachable state where back() succeeds,
\* a forward() made right after it succeeds too, returns the instruction
\* that was undone, and leaves the stack, the queue and the history, the
\* values of the last record included, exactly as they are now.
C29_RedoRoundTrip ==
    LET b == back(Self)
        f == forward(b.self)
    IN is_ok(b.result) =>
         /\ history # <<>>
         /\ f.result = Ok(Top(history).instruction)
         /\ f.self.stack = stack
         /\ f.self.instructions = instructions
         /\ f.self.history = history

\* forward() has just multiplied two different operands, and instructions
\* are still queued behind it.
C29_Witness ==
    /\ last.op = "forward" /\ last.result = Ok(Mul)
    /\ Top(history).popped_values[1] # Top(history).popped_values[2]
    /\ instructions # <<>>

\* C30: range of the stored values.  In every reachable state every value
\* on the stack and every popped or pushed value of a history record is a
\* signed 32-bit number, and the value a binary record pushed stands for a
\* mathematical result that is itself within [-2^31, 2^31 - 1]: no record
\* holds the wrapped image of a result outside the range.
C30_ValuesInRange ==
    /\ \A i \in 1..Len(stack) : stack[i] \in I32_MIN..I32_MAX
    /\ \A i \in 1..Len(history) :
         LET entry == history[i]
         IN /\ \A j \in 1..Len(entry.popped_values) :
                  entry.popped_values[j] \in I32_MIN..I32_MAX
            /\ \A j \in 1..Len(entry.pushed_values) :
                  entry.pushed_values[j] \in I32_MIN..I32_MAX
            /\ entry.instruction \in Arithmetic =>
                  ~OutOfRange(entry.instruction,
                              entry.popped_values[2], entry.popped_values[1])

\* A subtraction of a non-zero value has stored a result at an end of the
\* range, after an undo.
C30_Witness ==
    /\ \E i \in 1..Len(history) :
         /\ history[i].instruction = Sub
         /\ history[i].pushed_values[1] \in {I32_MIN, I32_MAX}
         /\ history[i].popped_values[1] # 0
    /\ counts.undone >= 1

\* C26: run() terminates from every reachable state.  While run() is in
\* its loop every iteration that goes round again has taken exactly one
\* instruction off the queue, run() never makes more forward() calls than
\* the queue held when it was entered, it returns Ok only with the queue
\* empty, and a run() that has been entered always returns.
C26_RunTerminates ==
    /\ [](scenario.executed_count <= Len(scenario.input))
    /\ []((scenario.pc = "calling" /\ last.op = "run" /\ is_ok(last.result)) =>
            instructions = <<>>)
    /\ [][(scenario.pc = "running" /\ scenario'.pc = "running") =>
            Len(instructions') = Len(instructions) - 1]_vars
    /\ ((scenario.pc = "running") ~> (scenario.pc = "calling"))

\* run() has returned an overflow from its third forward() call.
C26_Witness ==
    /\ scenario.pc = "calling" /\ last.op = "run"
    /\ scenario.run_result = Err(ArithmeticOverflow)
    /\ scenario.executed_count = 3

=============================================================================
